---- MODULE Spec2Model ----
(***************************************************************************)
(* Model of canvas-discussions-engagement: CanvasDiscussions and the two   *)
(* main() drivers (canvas_discussions_engagement.py,                       *)
(* canvas_discussions_eng_runner.py).  The Canvas server is the            *)
(* environment: every HTTP response (status, body, Link header) is chosen  *)
(* nondeterministically from small sets when the request is issued.        *)
(*                                                                         *)
(* Encoding of Python values:                                              *)
(*   - a JSON object is a TLA+ record; a key the object lacks is a field   *)
(*     the record lacks, so dict.get(k, default) is Get(d, k, default);    *)
(*   - a JSON array element / value is wrapped: [t |-> "dict", d |-> rec]  *)
(*     or [t |-> "scalar"] (anything that has no .get);                    *)
(*   - user and topic ids are strings ("1", "10"), so that the default     *)
(*     'Unknown' is a value of the same sort, different from every id;     *)
(*   - a sortable name is a sequence of character codes (32 is a space),   *)
(*     so that str.strip() and the ordering of sorted() are computed;      *)
(*   - timestamps are integers ordered as the ISO strings are; SentinelTs  *)
(*     is '1900-01-01T00:00:00Z' and NoneTs is a JSON null;                *)
(*   - a page URL of a listing is its page number; 0 is the falsy cursor   *)
(*     ("" or None).                                                       *)
(***************************************************************************)
EXTENDS Integers, Sequences, FiniteSets, TLC

(* ------------------------------ bounds -------------------------------- *)
\* pages a listing can have (the server's pagination chain is acyclic)
MaxPages == 2
\* elements of one page of a listing
MaxPerPage == 2
\* enrollee tuples resolved in one run, over both role listings
MaxEnrollees == 2
\* published topics collected in one run
MaxTopics == 2
\* entries of the participants array of one topic view
MaxParticipants == 2
\* size of the course: enrollee tuples plus published topics of one run
MaxRecords == 3

(* ------------------------- program constants -------------------------- *)
max_retries == 3
retry_delay == 2
SentinelTs == 0
NoneTs == -1
Space == 32

NameA == <<65>>
NameAPadded == <<32, 65, 32>>
NameB == <<66>>
\* 'Unknown'
UnknownName == <<85, 110, 107, 110, 111, 119, 110>>

(* ----------------------------- helpers -------------------------------- *)
\* dict.get(k, default)
Get(d, k, default) == IF k \in DOMAIN d THEN d[k] ELSE default

IsDict(v) == v.t = "dict"

Range(s) == {s[i] : i \in 1..Len(s)}

\* sequences over S of length lo..hi
SeqsOf(S, lo, hi) == UNION {[1..n -> S] : n \in lo..hi}

RECURSIVE LStrip(_)
LStrip(s) == IF s # <<>> /\ Head(s) = Space THEN LStrip(Tail(s)) ELSE s

RECURSIVE RStrip(_)
RStrip(s) ==
    IF s # <<>> /\ s[Len(s)] = Space THEN RStrip(SubSeq(s, 1, Len(s) - 1)) ELSE s

\* str.strip()
Strip(s) == RStrip(LStrip(s))

\* str < str of Python: lexicographic on the character codes
RECURSIVE StrLess(_, _)
StrLess(a, b) ==
    IF b = <<>> THEN FALSE
    ELSE IF a = <<>> THEN TRUE
    ELSE IF Head(a) # Head(b) THEN Head(a) < Head(b)
    ELSE StrLess(Tail(a), Tail(b))

server_url == [LPS_Production |-> "https://canvas.upenn.edu/",
               LPS_Test |-> "https://upenn.test.instructure.com/"]

enrollment_type == [Student |-> "StudentEnrollment", TA |-> "TaEnrollment",
                    Teacher |-> "TeacherEnrollment"]

Roles == {"Student", "TA", "Teacher"}

\* the roles the two programs construct CanvasDiscussions with: the runner
\* with 'Student', the module's own main with 'TA'
ConstructedRoles == {"Student", "TA"}

(* --------------------- the server: what it can answer ------------------ *)
\* state of the CANVAS_API_CRED environment variable
Credentials == {"valid", "unset", "invalid_json", "no_key"}

EnrollStatuses == {200, 401, 403, 404, 500, 502, 503}
TopicListStatuses == {200, 404, 500}
ViewStatuses == {200, 403, 500}
CourseStatuses == {200, 404}

Scalar == [t |-> "scalar"]
Dict(d) == [t |-> "dict", d |-> d]

\* a response body: not JSON, or a JSON value (a list, an object, ...)
NotJson == [json |-> FALSE]
JsonList(items) == [json |-> TRUE, t |-> "list", items |-> items]
JsonDict(d) == [json |-> TRUE, t |-> "dict", d |-> d]

\* the Link response header: absent, or a list of entries <url>; rel="..."
NoLink == [present |-> FALSE]
LinkHeaders(p) ==
    {NoLink, [present |-> TRUE, links |-> <<[url |-> 1, rel |-> "first"]>>]}
    \cup {[present |-> TRUE, links |-> <<[url |-> p, rel |-> "current"],
                                         [url |-> q, rel |-> "next"]>>] :
              q \in (p + 1)..MaxPages}

Response(status, body, link) == [status |-> status, body |-> body, link |-> link]

\* a listing's answers: a 200 carries a body and a Link header; of any other
\* status only the code is read
ListingResponses(statuses, bodies, p) ==
    {Response(200, b, l) : b \in bodies, l \in LinkHeaders(p)}
    \cup {Response(s, NotJson, NoLink) : s \in statuses \ {200}}

\* the nested user objects of enrollment records
EnrollUsers ==
    { [id |-> "1", sortable_name |-> NameA],
      [id |-> "2", sortable_name |-> NameAPadded],
      [id |-> "1", sortable_name |-> NameB],
      [sortable_name |-> NameB] }

\* the elements an enrollment page can hold when the listing is asked for `ty`
EnrollItems(ty) ==
    {Dict([type |-> ty, user |-> u]) : u \in EnrollUsers}
    \cup {Dict([type |-> "ObserverEnrollment",
                user |-> [id |-> "1", sortable_name |-> NameB]])}

\* a page is undecodable, an error object, a list with an element that is no
\* object, or a list of records
EnrollBodies(ty) ==
    {NotJson, JsonDict([errors |-> "x"]), JsonList(<<Scalar>>)}
    \cup {JsonList(s) : s \in SeqsOf(EnrollItems(ty), 0, MaxPerPage)}

\* the elements of a page of the discussion topic listing
TopicItems ==
    { Dict([published |-> TRUE, id |-> "10", title |-> "T1", last_reply_at |-> 2]),
      Dict([published |-> TRUE, id |-> "11", title |-> "T2", last_reply_at |-> 1]),
      Dict([published |-> TRUE, id |-> "12", title |-> "T1", last_reply_at |-> 2]),
      Dict([published |-> TRUE, id |-> "13", title |-> "T3"]),
      Dict([published |-> TRUE, id |-> "14", title |-> "T4", last_reply_at |-> NoneTs]),
      Dict([published |-> FALSE, id |-> "15", title |-> "T5", last_reply_at |-> 1]),
      Dict([id |-> "16", title |-> "T6", last_reply_at |-> 1]) }

TopicBodies ==
    {NotJson, JsonDict([errors |-> "x"]), JsonList(<<Scalar>>)}
    \cup {JsonList(s) : s \in SeqsOf(TopicItems, 0, MaxPerPage)}

\* the entries of the participants array of a topic view
ParticipantItems ==
    { Dict([id |-> "1"]), Dict([id |-> "2"]), Dict([id |-> "3"]),
      Dict([display_name |-> "x"]) }

ViewBodies ==
    {NotJson, JsonList(<<>>), JsonList(<<Scalar>>),
     JsonDict([k \in {} |-> k]), JsonDict([view |-> "x"]),
     JsonDict([participants |-> <<Scalar>>]),
     JsonDict([participants |-> <<Dict([id |-> "1"]), Scalar>>])}
    \cup {JsonDict([participants |-> s]) :
              s \in SeqsOf(ParticipantItems, 0, MaxParticipants)}

ViewResponses ==
    {Response(200, b, NoLink) : b \in ViewBodies}
    \cup {Response(s, NotJson, NoLink) : s \in ViewStatuses \ {200}}

CourseBodies == {NotJson, JsonList(<<>>), JsonDict([name |-> "Course"])}

(* ------------------------------ state --------------------------------- *)
VARIABLES
    cred,              \* the credential in the environment
    enrollment,        \* self.enrollment
    course_name,       \* self.course_name
    pc,                \* where the run is
    call,              \* which get_enrollees call of main is running (1, 2)
    page_url,          \* the pagination cursor of the running listing
    attempt,           \* the for-loop variable of get_enrollees
    enrollments,       \* the local list of get_enrollees
    ret,               \* the value the last get_enrollees call returned
    course_enrollees,  \* main's course_enrollees
    discussions,       \* the (date, id, title) tuples of get_course_discussion_data
    matrix,            \* enrollee_discussion_data
    tix,               \* position of the topic loop in discussions
    result,            \* the tuple get_course_discussion_data returned
    report,            \* the CSV file written
    last,              \* the last HTTP exchange (history)
    aborted,           \* the listings that ended before the end of their chain (history)
    hits,              \* <<user id, topic position>> of the matches made (history)
    collected,         \* the topic tuples in the order the API returned them (history)
    failed_views,      \* positions of the topics whose view was no 200 (history)
    offered            \* ids of the topics on the pages of the topic listing (history)

vars == <<cred, enrollment, course_name, pc, call, page_url, attempt,
          enrollments, ret, course_enrollees, discussions, matrix, tix,
          result, report, last, aborted, hits, collected, failed_views,
          offered>>

\* get_enrollment_type()
get_enrollment_type == enrollment_type[enrollment]

\* mutant: a credential without the server's key passes
HeadersOK_NoKeyPasses == cred \in {"valid", "no_key"}

\* get_token() / headers(): the credential is read and indexed by the server
\* type before the request is sent
HeadersOK == cred = "valid"

\* get_next_page_url(link_header)
RECURSIVE FirstNext(_)
FirstNext(links) ==
    IF links = <<>> THEN 0
    ELSE IF Head(links).rel = "next" THEN Head(links).url
    ELSE FirstNext(Tail(links))

\* mutant: the first entry of the header is followed, whatever its relation
get_next_page_url_FirstEntry(link_header) ==
    IF link_header.present /\ link_header.links # <<>>
    THEN Head(link_header.links).url ELSE 0

get_next_page_url(link_header) ==
    IF link_header.present THEN FirstNext(link_header.links) ELSE 0

\* history: the URL of the entry of the Link header whose relation is next,
\* 0 when the header is absent or has no such entry (the server sends at most
\* one)
RelNext(link) ==
    IF link.present /\ \E i \in 1..Len(link.links) : link.links[i].rel = "next"
    THEN link.links[CHOOSE i \in 1..Len(link.links) :
                        link.links[i].rel = "next"].url
    ELSE 0

\* history record of a request and its response: which endpoint (kind), which
\* listing (the role, "topics", or the topic id of a view), which URL (page
\* number, or position of the topic), the status, what the body was ("ok",
\* "notjson", "shape" for JSON of another shape, "none" when it is not read),
\* the URL of the rel="next" entry of the Link header (0 for none), the
\* number of the attempt at this URL, the seconds slept on the response, and
\* (a view) whether a participant that was read matched no enrollee, and
\* whether a participant that matched an enrollee was read twice
Exchange(kind, listing, url, resp, att, delay) ==
    [kind |-> kind, listing |-> listing, url |-> url, status |-> resp.status,
     body |-> IF resp.status # 200 THEN "none"
              ELSE IF ~resp.body.json THEN "notjson"
              ELSE resp.body.t,
     next |-> IF resp.status = 200 THEN RelNext(resp.link) ELSE 0,
     attempt |-> att, delay |-> delay, foreign |-> FALSE, repeated |-> FALSE]

NoExchange ==
    [kind |-> "none", listing |-> "", url |-> 0, status |-> 0, body |-> "none",
     next |-> 0, attempt |-> 0, delay |-> 0, foreign |-> FALSE,
     repeated |-> FALSE]

\* the empty dict
EmptyDict == [k \in {} |-> k]

NoResult == [rows |-> <<>>, titles |-> <<>>]
NoReport == [written |-> FALSE]

Init ==
    /\ cred \in Credentials
    /\ enrollment \in ConstructedRoles
    /\ course_name = "Unknown"
    /\ pc = "set_course_name"
    /\ call = 1
    /\ page_url = 0
    /\ attempt = 0
    /\ enrollments = <<>>
    /\ ret = <<>>
    /\ course_enrollees = <<>>
    /\ discussions = <<>>
    /\ matrix = EmptyDict
    /\ tix = 0
    /\ result = NoResult
    /\ report = NoReport
    /\ last = NoExchange
    /\ aborted = {}
    /\ hits = {}
    /\ collected = <<>>
    /\ failed_views = {}
    /\ offered = {}

(* ----------------------------- get_token ------------------------------ *)
\* headers() is evaluated before requests.get: a credential that is unset or
\* not JSON ends the process (sys.exit(1)); one without the server's key
\* raises KeyError, which nothing catches
RequestPoints == {"set_course_name", "get_enrollees",
                  "get_course_discussion_data", "process_full_topic_view"}

CredentialFailure ==
    /\ pc \in RequestPoints
    /\ ~HeadersOK
    /\ pc' = IF cred = "no_key" THEN "crashed" ELSE "exit1"
    /\ UNCHANGED <<cred, enrollment, course_name, call, page_url, attempt,
                   enrollments, ret, course_enrollees, discussions, matrix,
                   tix, result, report, last, aborted, hits, collected,
                   failed_views, offered>>

(* --------------------------- set_course_name -------------------------- *)
set_course_name ==
    /\ pc = "set_course_name"
    /\ HeadersOK
    /\ \E status \in CourseStatuses, body \in CourseBodies :
        /\ last' = Exchange("course", "course", 1, Response(status, body, NoLink), 1, 0)
        /\ IF body.json /\ body.t = "dict"
           THEN /\ course_name' = Get(body.d, "name", "Unknown Course")
                /\ pc' = "get_enrollees"
                /\ page_url' = 1
           ELSE \* response.json() raises, or a list has no .get
                /\ pc' = "crashed"
                /\ UNCHANGED <<course_name, page_url>>
    /\ UNCHANGED <<cred, enrollment, call, attempt, enrollments, ret,
                   course_enrollees, discussions, matrix, tix, result,
                   report, aborted, hits, collected, failed_views, offered>>

(* ----------------------------- get_enrollees -------------------------- *)
\* the (id, sortable_name) tuple of one enrollment record
EnrolleeTuple(e) ==
    <<Get(Get(e, "user", EmptyDict), "id", "Unknown"),
      Strip(Get(Get(e, "user", EmptyDict), "sortable_name", UnknownName))>>

RECURSIVE FilteredTuples(_, _)
FilteredTuples(data, ty) ==
    IF data = <<>> THEN <<>>
    ELSE IF Get(Head(data).d, "type", "None") = ty
         THEN <<EnrolleeTuple(Head(data).d)>> \o FilteredTuples(Tail(data), ty)
         ELSE FilteredTuples(Tail(data), ty)

\* isinstance(data, list) and all(isinstance(e, dict) for e in data)
IsListOfDicts(body) ==
    /\ body.t = "list"
    /\ \A i \in 1..Len(body.items) : IsDict(body.items[i])

\* mutant: 404 is taken for a server error and retried
StatusClass_404Retried(status) ==
    IF status = 200 THEN "ok"
    ELSE IF status \in {401, 403} THEN "unauthorized"
    ELSE IF status \in {404, 500} THEN "server_error"
    ELSE "unexpected"

\* the if/elif chain of get_enrollees on response.status_code
StatusClass(status) ==
    IF status = 200 THEN "ok"
    ELSE IF status \in {401, 403} THEN "unauthorized"
    ELSE IF status = 404 THEN "not_found"
    ELSE IF status = 500 THEN "server_error"
    ELSE "unexpected"

\* mutant: one pass too many
MayRetry_OneMore(att) == att + 1 <= max_retries

\* for attempt in range(max_retries): another pass follows pass number att
MayRetry(att) == att + 1 < max_retries

\* mutant: the records of the pages before are returned
FailureValue_Partial(acc) == acc

\* what get_enrollees returns when it gives up: return []
FailureValue(acc) == <<>>

\* one pass of the retry loop: what get_enrollees does with the response to
\* attempt number att (0-based) at the current page, acc being the records
\* of the pages before
\*   "next"   : the page was taken, go on with the page the Link header names
\*   "retry"  : sleep and ask again
\*   "return" : give up
\*   "done"   : return the records of all pages
EnrollOutcome(resp, ty, att, acc) ==
    LET class == StatusClass(resp.status) IN
    IF class = "ok"
    THEN IF ~resp.body.json
         THEN [do |-> "return", delay |-> 0, value |-> FailureValue(acc)]
         ELSE IF IsListOfDicts(resp.body)
         THEN IF get_next_page_url(resp.link) # 0
              THEN [do |-> "next", delay |-> 0,
                    value |-> acc \o FilteredTuples(resp.body.items, ty),
                    url |-> get_next_page_url(resp.link)]
              ELSE [do |-> "done", delay |-> 0,
                    value |-> acc \o FilteredTuples(resp.body.items, ty)]
         ELSE [do |-> "return", delay |-> 0, value |-> FailureValue(acc)]
    ELSE IF class = "server_error"
    THEN IF MayRetry(att)
         THEN [do |-> "retry", delay |-> retry_delay]
         ELSE [do |-> "return", delay |-> retry_delay, value |-> FailureValue(acc)]
    ELSE [do |-> "return", delay |-> 0, value |-> FailureValue(acc)]

get_enrollees ==
    /\ pc = "get_enrollees"
    /\ HeadersOK
    /\ page_url # 0
    /\ \E resp \in ListingResponses(EnrollStatuses,
                                    EnrollBodies(get_enrollment_type), page_url) :
        LET o == EnrollOutcome(resp, get_enrollment_type, attempt, enrollments) IN
        /\ o.do \in {"next", "done"} =>
              Len(course_enrollees) + Len(o.value) <= MaxEnrollees
        /\ last' = Exchange("enrollments", enrollment, page_url, resp,
                            attempt + 1, o.delay)
        /\ aborted' = IF o.do = "return" THEN aborted \cup {enrollment}
                      ELSE aborted
        /\ CASE o.do = "next" ->
                  /\ enrollments' = o.value
                  /\ attempt' = 0
                  /\ page_url' = o.url
                  /\ UNCHANGED <<pc, ret>>
             [] o.do = "retry" ->
                  /\ attempt' = attempt + 1
                  /\ UNCHANGED <<enrollments, page_url, pc, ret>>
             [] o.do = "done" ->
                  /\ pc' = "main_enrollees"
                  /\ ret' = o.value
                  /\ enrollments' = o.value
                  /\ attempt' = 0
                  /\ page_url' = 0
             [] o.do = "return" ->
                  /\ pc' = "main_enrollees"
                  /\ ret' = o.value
                  /\ attempt' = 0
                  /\ page_url' = 0
                  /\ UNCHANGED enrollments
    /\ UNCHANGED <<cred, enrollment, course_name, call, course_enrollees,
                   discussions, matrix, tix, result, report, hits, collected,
                   failed_views, offered>>

(* -------------------------------- main -------------------------------- *)
\* main, from the return of a get_enrollees call to the next call it makes
main_enrollees ==
    /\ pc = "main_enrollees"
    /\ LET all == IF call = 1 THEN ret ELSE course_enrollees \o ret IN
       IF call = 1 /\ get_enrollment_type # "StudentEnrollment"
       THEN /\ course_enrollees' = ret
            /\ enrollment' = IF get_enrollment_type = "TaEnrollment"
                             THEN "Teacher" ELSE "TA"
            /\ call' = 2
            /\ pc' = "get_enrollees"
            /\ page_url' = 1
       ELSE /\ course_enrollees' = all
            /\ IF Len(all) > 0
               THEN pc' = "get_course_discussion_data" /\ page_url' = 1
               ELSE pc' = "no_csv" /\ page_url' = 0
            /\ UNCHANGED <<enrollment, call>>
    /\ ret' = <<>>
    /\ enrollments' = <<>>
    /\ UNCHANGED <<cred, course_name, attempt, discussions,
                   matrix, tix, result, report, last, aborted, hits, collected,
                   failed_views, offered>>

(* ---------------------- get_course_discussion_data --------------------- *)
\* the (topic_posted_date, topic_id, topic_title) tuple of one topic
TopicTuple(topic) ==
    <<Get(topic, "last_reply_at", SentinelTs), Get(topic, "id", "Unknown"),
      Get(topic, "title", "Unknown Title")>>

\* mutant: no topic is filtered out
PublishedTuples_All(topics) ==
    [i \in 1..Len(topics) |-> TopicTuple(topics[i].d)]

\* the tuples of the published topics of a page, in page order
RECURSIVE PublishedTuples(_)
PublishedTuples(topics) ==
    IF topics = <<>> THEN <<>>
    ELSE IF Get(Head(topics).d, "published", FALSE)
         THEN <<TopicTuple(Head(topics).d)>> \o PublishedTuples(Tail(topics))
         ELSE PublishedTuples(Tail(topics))

\* key=lambda x: x[0] if x[0] is not None else '1900-01-01T00:00:00Z'
SortKey(x) == IF x[1] # NoneTs THEN x[1] ELSE SentinelTs

\* mutant: a tuple is put before the tuples of the same key
RECURSIVE InsertStable_Unstable(_, _)
InsertStable_Unstable(s, x) ==
    IF s = <<>> THEN <<x>>
    ELSE IF SortKey(x) <= SortKey(Head(s)) THEN <<x>> \o s
    ELSE <<Head(s)>> \o InsertStable_Unstable(Tail(s), x)

\* list.sort(key=...): stable, ascending
RECURSIVE InsertStable(_, _)
InsertStable(s, x) ==
    IF s = <<>> THEN <<x>>
    ELSE IF SortKey(x) < SortKey(Head(s)) THEN <<x>> \o s
    ELSE <<Head(s)>> \o InsertStable(Tail(s), x)

RECURSIVE SortDiscussions(_)
SortDiscussions(s) ==
    IF s = <<>> THEN <<>>
    ELSE InsertStable(SortDiscussions(SubSeq(s, 1, Len(s) - 1)), s[Len(s)])

\* [title for _, _, title in discussions]
TitlesOf(ds) == [i \in 1..Len(ds) |-> ds[i][3]]

list_topic_titles == TitlesOf(discussions)

\* {enrollee[1]: [False] * len(list_topic_titles) for enrollee in enrollees}
RowKey(enrollee) == enrollee[2]

InitialMatrix(enrollees, n) ==
    [name \in {RowKey(enrollees[i]) : i \in 1..Len(enrollees)} |->
        [j \in 1..n |-> FALSE]]

\* OrderedDict(sorted(enrollee_discussion_data.items())): the items in
\* ascending order of their keys
RECURSIVE SortedKeys(_)
SortedKeys(S) ==
    IF S = {} THEN <<>>
    ELSE LET least == CHOOSE k \in S : \A o \in S \ {k} : StrLess(k, o)
         IN  <<least>> \o SortedKeys(S \ {least})

OrderedRows(m) ==
    LET keys == SortedKeys(DOMAIN m)
    IN  [i \in 1..Len(keys) |-> <<keys[i], m[keys[i]]>>]

\* one page of the topic listing
\*   "next"   : the page was taken, go on with the page the Link header names
\*   "stop"   : a status other than 200 ends the loop (page_url = None)
\*   "return" : return {}, []
\*   "raise"  : the body is not a list of objects: AttributeError/TypeError
TopicOutcome(resp) ==
    IF resp.status = 200
    THEN IF ~resp.body.json THEN [do |-> "return"]
         ELSE IF resp.body.t # "list" THEN [do |-> "raise"]
         ELSE IF \E i \in 1..Len(resp.body.items) : ~IsDict(resp.body.items[i])
         THEN [do |-> "raise"]
         ELSE [do |-> "next", more |-> PublishedTuples(resp.body.items),
               url |-> get_next_page_url(resp.link)]
    ELSE [do |-> "stop", more |-> <<>>, url |-> 0]

get_course_discussion_data ==
    /\ pc = "get_course_discussion_data"
    /\ HeadersOK
    /\ page_url # 0
    /\ \E resp \in ListingResponses(TopicListStatuses, TopicBodies, page_url) :
        LET o == TopicOutcome(resp) IN
        /\ o.do = "next" =>
              /\ Len(discussions) + Len(o.more) <= MaxTopics
              /\ Len(course_enrollees) + Len(discussions) + Len(o.more)
                     <= MaxRecords
        /\ last' = Exchange("topics", "topics", page_url, resp, 1, 0)
        /\ aborted' = IF o.do \in {"raise", "return", "stop"}
                      THEN aborted \cup {"topics"} ELSE aborted
        /\ collected' = IF o.do \in {"next", "stop"}
                        THEN collected \o o.more ELSE collected
        /\ offered' = IF o.do = "next"
                      THEN offered \cup {Get(t.d, "id", "Unknown") :
                                             t \in Range(resp.body.items)}
                      ELSE offered
        /\ CASE o.do = "raise" ->
                  /\ pc' = "crashed"
                  /\ UNCHANGED <<discussions, page_url, matrix, tix, result>>
             [] o.do = "return" ->
                  /\ pc' = "main_report"
                  /\ result' = NoResult
                  /\ page_url' = 0
                  /\ UNCHANGED <<discussions, matrix, tix>>
             [] o.do \in {"next", "stop"} /\ o.url # 0 ->
                  /\ discussions' = discussions \o o.more
                  /\ page_url' = o.url
                  /\ UNCHANGED <<pc, matrix, tix, result>>
             [] o.do \in {"next", "stop"} /\ o.url = 0 ->
                  LET sorted == SortDiscussions(discussions \o o.more)
                      data == InitialMatrix(course_enrollees, Len(sorted))
                  IN  /\ discussions' = sorted
                      /\ matrix' = data
                      /\ page_url' = 0
                      /\ IF sorted = <<>>
                         THEN /\ pc' = "main_report"
                              /\ result' = [rows |-> OrderedRows(data),
                                            titles |-> TitlesOf(sorted)]
                              /\ tix' = 0
                         ELSE /\ pc' = "process_full_topic_view"
                              /\ tix' = 1
                              /\ UNCHANGED result
    /\ UNCHANGED <<cred, enrollment, course_name, call, attempt, enrollments,
                   ret, course_enrollees, report, hits, failed_views>>

(* ------------------------ process_full_topic_view --------------------- *)
\* get_full_topic_view: the view, or {} for anything but a decodable 200
get_full_topic_view(resp) ==
    IF resp.status = 200
    THEN IF resp.body.json THEN resp.body ELSE JsonDict(EmptyDict)
    ELSE IF resp.status = 403 THEN JsonDict(EmptyDict)
    ELSE JsonDict(EmptyDict)

\* not topic_view
Falsy(v) == IF v.t = "list" THEN v.items = <<>> ELSE DOMAIN v.d = {}

\* next((enrollee for enrollee in enrollees_in_course if enrollee[0] == pid),
\* None): the position of the first such enrollee, 0 for None
MatchedEnrollee(enrollees, pid) ==
    IF \E i \in 1..Len(enrollees) : enrollees[i][1] = pid
    THEN CHOOSE i \in 1..Len(enrollees) :
            /\ enrollees[i][1] = pid
            /\ \A j \in 1..(i - 1) : enrollees[j][1] # pid
    ELSE 0

\* list.index(x)
IndexOf(s, x) ==
    CHOOSE i \in 1..Len(s) : s[i] = x /\ \A j \in 1..(i - 1) : s[j] # x

\* the column process_full_topic_view writes for the topic it was called for
TopicColumn(titles, topic_title, position) == IndexOf(titles, topic_title)

\* mutant: a participant that matches no enrollee gets a row of its own
ProcessParticipant_AddsRow(m, participant, enrollees, titles, topic_title, position) ==
    LET participant_id == Get(participant, "id", "Unknown")
        matched == MatchedEnrollee(enrollees, participant_id)
    IN  IF matched # 0
        THEN [m EXCEPT ![RowKey(enrollees[matched])]
                           [TopicColumn(titles, topic_title, position)] = TRUE]
        ELSE [name \in DOMAIN m \cup {UnknownName} |->
                 IF name \in DOMAIN m /\ name # UnknownName THEN m[name]
                 ELSE [j \in 1..Len(titles) |->
                          j = TopicColumn(titles, topic_title, position)]]

\* mutant: a match flips the flag
ProcessParticipant_Toggles(m, participant, enrollees, titles, topic_title, position) ==
    LET participant_id == Get(participant, "id", "Unknown")
        matched == MatchedEnrollee(enrollees, participant_id)
    IN  IF matched # 0
        THEN [m EXCEPT ![RowKey(enrollees[matched])]
                           [TopicColumn(titles, topic_title, position)] = ~@]
        ELSE m

\* the body of the participant loop for one participant
ProcessParticipant(m, participant, enrollees, titles, topic_title, position) ==
    LET participant_id == Get(participant, "id", "Unknown")
        matched == MatchedEnrollee(enrollees, participant_id)
    IN  IF matched # 0
        THEN [m EXCEPT ![RowKey(enrollees[matched])]
                           [TopicColumn(titles, topic_title, position)] = TRUE]
        ELSE m

\* the participant loop, up to the first entry that is not an object
RECURSIVE ProcessParticipants(_, _, _, _, _, _)
ProcessParticipants(m, ps, enrollees, titles, topic_title, position) ==
    IF ps = <<>> THEN [m |-> m, raised |-> FALSE]
    ELSE IF ~IsDict(Head(ps)) THEN [m |-> m, raised |-> TRUE]
    ELSE ProcessParticipants(
             ProcessParticipant(m, Head(ps).d, enrollees, titles, topic_title,
                                position),
             Tail(ps), enrollees, titles, topic_title, position)

\* the participants the loop reads before it ends or raises
RECURSIVE ReadParticipants(_)
ReadParticipants(ps) ==
    IF ps = <<>> \/ ~IsDict(Head(ps)) THEN <<>>
    ELSE <<Head(ps).d>> \o ReadParticipants(Tail(ps))

\* history: the <<id, position>> pairs of the participants of the view of the
\* topic at `position` whose id is the id of an enrollee
HitsOf(ps, enrollees, position) ==
    {<<Get(p, "id", "Unknown"), position>> : p \in
        {q \in Range(ReadParticipants(ps)) :
            MatchedEnrollee(enrollees, Get(q, "id", "Unknown")) # 0}}

\* history: a participant that was read is no enrollee
Foreign(ps, enrollees) ==
    \E q \in Range(ReadParticipants(ps)) :
        MatchedEnrollee(enrollees, Get(q, "id", "Unknown")) = 0

\* history: a participant that is an enrollee was read twice
Repeated(ps, enrollees) ==
    LET read == ReadParticipants(ps) IN
    \E i, j \in 1..Len(read) :
        /\ i < j
        /\ read[i] = read[j]
        /\ MatchedEnrollee(enrollees, Get(read[i], "id", "Unknown")) # 0

process_full_topic_view ==
    /\ pc = "process_full_topic_view"
    /\ HeadersOK
    /\ tix \in 1..Len(discussions)
    /\ \E resp \in ViewResponses :
        LET topic_view == get_full_topic_view(resp)
            topic_title == discussions[tix][3]
            ps == IF topic_view.t = "dict"
                  THEN Get(topic_view.d, "participants", <<>>) ELSE <<>>
            done == ProcessParticipants(matrix, ps, course_enrollees,
                                        list_topic_titles, topic_title, tix)
            raises == ~Falsy(topic_view) /\ (topic_view.t = "list" \/ done.raised)
        IN
        /\ last' = [Exchange("view", discussions[tix][2], tix, resp, 1, 0)
                        EXCEPT !.foreign = Foreign(ps, course_enrollees),
                               !.repeated = Repeated(ps, course_enrollees)]
        /\ matrix' = done.m
        /\ hits' = hits \cup HitsOf(ps, course_enrollees, tix)
        /\ failed_views' = IF resp.status # 200 THEN failed_views \cup {tix}
                           ELSE failed_views
        /\ IF raises
           THEN pc' = "crashed" /\ UNCHANGED <<tix, result>>
           ELSE IF tix < Len(discussions)
           THEN tix' = tix + 1 /\ UNCHANGED <<pc, result>>
           ELSE /\ pc' = "main_report"
                /\ result' = [rows |-> OrderedRows(done.m),
                              titles |-> list_topic_titles]
                /\ UNCHANGED tix
    /\ UNCHANGED <<cred, enrollment, course_name, call, page_url, attempt,
                   enrollments, ret, course_enrollees, discussions, report,
                   aborted, collected, offered>>

(* ----------------------- main: the report or none --------------------- *)
\* write_discussion_data_to_csv
CsvFile(rows, titles) ==
    [written |-> TRUE,
     file |-> IF get_enrollment_type = "StudentEnrollment"
              THEN "students_discussions" ELSE "instructors_discussions",
     header |-> titles,
     rows |-> [i \in 1..Len(rows) |->
                  <<rows[i][1],
                    [j \in 1..Len(rows[i][2]) |->
                        IF rows[i][2][j] THEN "Yes" ELSE "No"]>>]]

\* mutant: only the matrix is looked at
ReportDue_RowsOnly(enrollee_discussion_tuple) ==
    enrollee_discussion_tuple.rows # <<>>

\* if enrollee_discussion_tuple[0] and enrollee_discussion_tuple[1]
ReportDue(enrollee_discussion_tuple) ==
    /\ enrollee_discussion_tuple.rows # <<>>
    /\ enrollee_discussion_tuple.titles # <<>>

main_report ==
    /\ pc = "main_report"
    /\ IF ReportDue(result)
       THEN /\ report' = CsvFile(result.rows, result.titles)
            /\ pc' = "csv_written"
       ELSE /\ pc' = "no_csv"
            /\ UNCHANGED report
    /\ UNCHANGED <<cred, enrollment, course_name, call, page_url, attempt,
                   enrollments, ret, course_enrollees, discussions, matrix,
                   tix, result, last, aborted, hits, collected, failed_views, offered>>

Next ==
    \/ CredentialFailure
    \/ set_course_name
    \/ get_enrollees
    \/ main_enrollees
    \/ get_course_discussion_data
    \/ process_full_topic_view
    \/ main_report

Spec == Init /\ [][Next]_vars

(* ======================================================================= *)
(*                               properties                                *)
(* ======================================================================= *)
Enrollees == {course_enrollees[i] : i \in 1..Len(course_enrollees)}

\* the matrix was initialised (the enrollee list is not empty then)
MatrixBuilt == DOMAIN matrix # {}

\* get_course_discussion_data returned the matrix it built
MatrixReturned == result.rows # <<>>

\* the first enrollee with this id: the one a participant is matched to
FirstWithId(id) == course_enrollees[MatchedEnrollee(course_enrollees, id)]

ListingKinds == {"enrollments", "topics"}

\* the enrollment records all carry an id and no id comes twice
DistinctEnrollees ==
    /\ \A e \in Enrollees : e[1] # "Unknown"
    /\ \A i, j \in 1..Len(course_enrollees) :
          course_enrollees[i][1] = course_enrollees[j][1] => i = j

\* no topic comes twice in the topic list
DistinctTopics ==
    \A i, j \in 1..Len(discussions) :
        discussions[i][2] = discussions[j][2] => i = j

\* C1: every enrollee of the resolved set has a row of its own in the
\* returned matrix, as long as the topic list: two enrollees with different
\* ids have two different rows, whatever their sortable names.
C1_OneRowPerEnrollee ==
    (MatrixReturned /\ DistinctEnrollees) =>
        /\ \A e \in Enrollees :
              \E r \in 1..Len(result.rows) :
                  /\ result.rows[r][1] = RowKey(e)
                  /\ Len(result.rows[r][2]) = Len(result.titles)
        /\ \A e1, e2 \in Enrollees :
              e1[1] # e2[1] =>
                  \A r1, r2 \in 1..Len(result.rows) :
                      (result.rows[r1][1] = RowKey(e1)
                           /\ result.rows[r2][1] = RowKey(e2)) => r1 # r2

\* C2: a flag of an enrollee's row is true only if a participant with the
\* enrollee's own id was read in a decoded 200 view: no participant turns on
\* a flag of an enrollee with another id.
C2_MatchByIdOnly ==
    (MatrixBuilt /\ DistinctEnrollees) =>
        \A e \in Enrollees : \A k \in 1..Len(discussions) :
            matrix[RowKey(e)][k] =>
                \E k2 \in 1..Len(discussions) : <<e[1], k2>> \in hits

\* C3: a match made while the topic at position k is processed sets the flag
\* at position k, and a flag at position k is set only by a match made while
\* the topic at position k is processed, also when two topics share a title.
C3_OwnColumn ==
    (MatrixBuilt /\ DistinctEnrollees /\ DistinctTopics) =>
        /\ \A h \in hits : matrix[RowKey(FirstWithId(h[1]))][h[2]]
        /\ \A name \in DOMAIN matrix : \A k \in 1..Len(discussions) :
              matrix[name][k] =>
                  \E e \in Enrollees : RowKey(e) = name /\ <<e[1], k>> \in hits

\* C4: every key of the matrix (and of the returned rows) is the key of a
\* resolved enrollee, in every step; a topic view none of whose participants
\* matches an enrollee leaves the matrix as it was.
C4_NoForeignRows ==
    [][ /\ DOMAIN matrix' \subseteq {RowKey(e) : e \in Enrollees'}
        /\ \A r \in 1..Len(result'.rows) :
              result'.rows[r][1] \in {RowKey(e) : e \in Enrollees'}
        /\ (last' # last /\ last'.kind = "view" /\ hits' = hits)
              => matrix' = matrix ]_vars

\* C4 witness: a view with a participant that is no enrollee was processed
\* and the run went on
C4_Witness ==
    /\ last.kind = "view"
    /\ last.foreign
    /\ MatrixBuilt
    /\ pc \in {"process_full_topic_view", "main_report"}

\* C5: once a page of the topic listing failed, the topic list is empty: no
\* topic view is processed and no titles are returned.
C5_AbortYieldsEmptyCatalog ==
    "topics" \in aborted =>
        /\ pc # "process_full_topic_view"
        /\ result.titles = <<>>

\* C6: a 5xx response to a listing request that is not the third attempt at
\* its URL is followed by the fixed delay and another request of the same URL.
C6_RetryEvery5xx ==
    (last.kind \in ListingKinds /\ last.status >= 500 /\ last.attempt < 3) =>
        /\ last.delay = retry_delay
        /\ page_url = last.url
        /\ pc = IF last.kind = "enrollments" THEN "get_enrollees"
                ELSE "get_course_discussion_data"
        /\ last.kind = "enrollments" => enrollment = last.listing

TerminalResponse(x) ==
    /\ x.kind \in ListingKinds
    /\ \/ x.status \in {401, 403, 404}
       \/ x.status = 200 /\ x.body = "notjson"

\* C8: a 401, 403, 404 or undecodable 200 of a listing ends the listing
\* without a delay, and a listing that has ended this way (or any other way
\* short of its last page) is never requested again.
C8_TerminalResponses ==
    [][ /\ (last' # last /\ TerminalResponse(last')) =>
              /\ last'.delay = 0
              /\ last'.listing \in aborted'
              /\ page_url' = 0
              /\ pc' \notin {"get_enrollees", "get_course_discussion_data"}
        /\ (last' # last /\ last'.kind \in ListingKinds) =>
              last'.listing \notin aborted ]_vars

\* C8 witness: the first role's listing ended on a terminal response and the
\* run goes on with the second role's listing
C8_Witness ==
    /\ TerminalResponse(last)
    /\ last.listing \in aborted
    /\ pc = "get_enrollees"
    /\ enrollment # last.listing

\* C9: get_enrollees returns the empty list, or it returns after a 200 list
\* page without a next link, having given up nowhere; when it gave up, it
\* returns the empty list whatever the pages before held.
C9_AllOrNothing ==
    pc = "main_enrollees" =>
        /\ \/ ret = <<>>
           \/ /\ last.kind = "enrollments"
              /\ last.status = 200
              /\ last.body = "list"
              /\ last.next = 0
              /\ last.listing \notin aborted
        /\ enrollment \in aborted => ret = <<>>
        /\ enrollment \notin aborted => ret = enrollments

\* C9 witness: a later page failed after records had been collected
C9_Witness ==
    /\ pc = "main_enrollees"
    /\ enrollment \in aborted
    /\ enrollments # <<>>
    /\ last.url > 1

\* C10: with a valid credential no run ends in an unhandled exception.
C10_NoUnhandledException == cred = "valid" => pc # "crashed"

\* C11: the list an enrollment resolution returns holds no identifier twice,
\* however often the pages of the listing name it.
C11_NoDuplicateIds ==
    pc = "main_enrollees" =>
        \A i, j \in 1..Len(ret) :
            (ret[i][1] = ret[j][1] /\ ret[i][1] # "Unknown") => i = j

\* C12: a record whose user has no id adds no enrollee: no tuple with the
\* placeholder id is returned or kept, none gets a row, and no participant is
\* matched to one.
C12_MissingIdSkipped ==
    /\ \A i \in 1..Len(ret) : ret[i][1] # "Unknown"
    /\ \A i \in 1..Len(course_enrollees) : course_enrollees[i][1] # "Unknown"
    /\ \A h \in hits : h[1] # "Unknown"

\* the activity timestamp a topic tuple is ordered by: the sentinel when the
\* API gave none (absent or null)
ActivityOf(x) == IF x[1] = NoneTs THEN SentinelTs ELSE x[1]

NoActivity(x) == x[1] \in {SentinelTs, NoneTs}

\* the topic list was sorted and is not empty
TopicsOrdered == tix > 0

C14_TopicListFinal ==
    MatrixBuilt =>
        /\ DistinctTopics
        /\ \A i, j \in 1..Len(discussions) :
              i < j => ActivityOf(discussions[i]) <= ActivityOf(discussions[j])

\* C15: the column of a topic whose view was answered with a status other
\* than 200 is false in every row, whatever the views of the other topics
\* hold, and such an answer does not end the run in an error.
C15_FailedViewColumnFalse ==
    (DistinctEnrollees /\ DistinctTopics) =>
        /\ \A k \in failed_views : \A name \in DOMAIN matrix : ~matrix[name][k]
        /\ (last.kind = "view" /\ last.status # 200) =>
              pc \notin {"crashed", "exit1"}

\* C16: a report is written only from a non-empty enrollee list and a
\* non-empty topic list; when main finds the enrollee list empty, or the
\* returned topic list or matrix empty, its next step is 'No CSV written' and
\* no file is written.
C16_ReportNeedsBoth ==
    [][ /\ report'.written =>
              /\ course_enrollees' # <<>>
              /\ result'.titles # <<>>
              /\ result'.rows # <<>>
        /\ (pc = "main_enrollees" /\ pc' # "get_enrollees"
                /\ course_enrollees' = <<>>) =>
              pc' = "no_csv" /\ ~report'.written
        /\ (pc = "main_report" /\ pc' # pc
                /\ (result.titles = <<>> \/ result.rows = <<>>)) =>
              pc' = "no_csv" /\ ~report'.written
        /\ pc = "no_csv" => pc' = "no_csv" /\ ~report'.written ]_vars

\* C16 witness: enrollees were resolved, the topic list came back empty and
\* the run ended without a report
C16_Witness ==
    /\ pc = "no_csv"
    /\ course_enrollees # <<>>
    /\ result.rows # <<>>
    /\ result.titles = <<>>
    /\ ~report.written

\* C17: no report is written in a run in which the enrollment listing of a
\* role was given up.
C17_AbortMeansNoReport ==
    (\E r \in Roles : r \in aborted) => ~report.written

\* the page of a listing that `x` records was a 200 and was taken
PageTaken(x) ==
    /\ x.kind \in ListingKinds
    /\ x.status = 200
    /\ x.listing \notin aborted

\* the next request is one of the listing `x` belongs to
SameListing(x, y) == y.kind = x.kind /\ y.listing = x.listing

C19_MonotoneIdempotent ==
    [][ /\ \A name \in DOMAIN matrix : \A k \in 1..Len(matrix[name]) :
              matrix[name][k] => (name \in DOMAIN matrix' /\ matrix'[name][k])
        /\ (pc = "process_full_topic_view" /\ tix \in 1..Len(discussions)) =>
              \A p \in ParticipantItems :
                  LET once == ProcessParticipants(matrix, <<p>>, course_enrollees,
                                  list_topic_titles, discussions[tix][3], tix)
                      twice == ProcessParticipants(matrix, <<p, p>>,
                                  course_enrollees, list_topic_titles,
                                  discussions[tix][3], tix)
                  IN  /\ twice.m = once.m
                      /\ ~twice.raised
                      /\ ProcessParticipants(once.m, <<p>>, course_enrollees,
                             list_topic_titles, discussions[tix][3], tix).m
                            = once.m ]_vars

\* C19 witness: the view of the second topic listed an enrollee twice who
\* was matched in the view of the first topic too; both flags are set and the
\* run went on
C19_Witness ==
    /\ last.kind = "view"
    /\ last.url = 2
    /\ last.repeated
    /\ pc = "main_report"
    /\ DistinctTopics
    /\ \E id \in {"1", "2"} :
          /\ <<id, 1>> \in hits
          /\ <<id, 2>> \in hits
          /\ matrix[RowKey(FirstWithId(id))][1]
          /\ matrix[RowKey(FirstWithId(id))][2]

\* the order of the identifiers
IdLess(a, b) == <<a, b>> \in {<<"1", "2">>, <<"1", "3">>, <<"2", "3">>}

\* C20: the rows of the returned matrix stand in ascending order of the
\* identifiers of the enrollees they belong to.
C20_RowsByIdentity ==
    (MatrixReturned /\ DistinctEnrollees) =>
        \A r1, r2 \in 1..Len(result.rows) :
            r1 < r2 =>
                \A e1, e2 \in Enrollees :
                    (RowKey(e1) = result.rows[r1][1]
                         /\ RowKey(e2) = result.rows[r2][1]) =>
                        IdLess(e1[1], e2[1])

\* C21: with a credential that is unset, not JSON or without the server's
\* key, no HTTP request is ever issued: the run ends at the first point where
\* headers are built, and nothing is written.
C21_NoRequestWithoutCredential ==
    cred # "valid" =>
        /\ last = NoExchange
        /\ pc \in {"set_course_name", "exit1", "crashed"}
        /\ ~report.written
        /\ course_enrollees = <<>> /\ discussions = <<>>

\* C21 witness: the run ended in sys.exit(1) on an unreadable credential
C21_Witness ==
    /\ cred \in {"unset", "invalid_json"}
    /\ pc = "exit1"
    /\ last = NoExchange

\* the ids of the topics the server offers as unpublished (published false
\* or absent)
UnpublishedIds ==
    {t.d.id : t \in {x \in TopicItems :
                        ~("published" \in DOMAIN x.d /\ x.d.published)}}

\* the topic listing was fetched to its last page
TopicsFetched ==
    /\ "topics" \notin aborted
    /\ last.kind \in {"topics", "view"}
    /\ pc \in {"process_full_topic_view", "main_report", "csv_written",
               "no_csv"}

\* C22: no unpublished topic is in the topic list, has a column in the
\* returned titles or has its view fetched; once the listing was fetched to
\* its end, every published topic it offered is in the topic list, has a
\* column in the matrix rows and is in the returned titles.
C22_PublishedOnly ==
    /\ \A k \in 1..Len(discussions) : discussions[k][2] \notin UnpublishedIds
    /\ Len(result.titles) <= Len(discussions)
    /\ last.kind = "view" => last.listing \notin UnpublishedIds
    /\ TopicsFetched =>
          /\ \A id \in offered \ UnpublishedIds :
                \E k \in 1..Len(discussions) : discussions[k][2] = id
          /\ \A name \in DOMAIN matrix : Len(matrix[name]) = Len(discussions)
          /\ pc \in {"csv_written", "no_csv"} =>
                result.titles = TitlesOf(discussions)

\* C22 witness: the listing offered a published and an unpublished topic, and
\* the report has the one column of the published topic
C22_Witness ==
    /\ TopicsFetched
    /\ offered \cap UnpublishedIds # {}
    /\ Len(discussions) = 1
    /\ pc = "csv_written"
    /\ Len(report.header) = 1

\* C23: with a valid credential a run that can take no further step has
\* written the report or printed 'No CSV written'; no page of the enrollment
\* listing is asked for more than 3 times and no page of the topic listing
\* more than once.
C23_EndsInFinalState ==
    /\ (cred = "valid" /\ ~ENABLED Next) => pc \in {"csv_written", "no_csv"}
    /\ last.kind = "enrollments" => last.attempt <= max_retries
    /\ last.kind = "topics" => last.attempt = 1

====
